---------------------------- MODULE Spec2Model ----------------------------
(***************************************************************************)
(* A model of the FolhaInvest client (package module                       *)
(* folhainvest/folhainvest.py): one cookie-bearing session, the write      *)
(* operations login, buy, buy_start, sell, sell_stop, cancel and           *)
(* reset_portfolio, and the read operations info, orders_status,           *)
(* portfolio, quotations and simulator_trades.                             *)
(*                                                                         *)
(* Text is a sequence of one-character strings, so that str.replace, the   *)
(* `in` substring test and float() are computed and not assumed.  A Python *)
(* float is a fixed-point number: [num, exp] stands for num / 10^exp.      *)
(* The remote portal and the transport are the environment: every request  *)
(* either raises (a requests exception) or yields a response chosen from a *)
(* small set.                                                              *)
(***************************************************************************)
EXTENDS Integers, Sequences, FiniteSets, TLC

VARIABLES
  session,  \* self._session: the identity of the requests session object
  pc,       \* pc[c]: where caller c is in its current call
  op,       \* op[c]: the public method caller c is running or ran last
  args,     \* args[c]: the arguments of that call
  r,        \* r[c]: the local variable r of the handler (the last response kept)
  result,   \* result[c]: what the call returned or raised
  log       \* the requests issued on the session by the calls not yet taken back

vars == <<session, pc, op, args, r, result, log>>

---------------------------------------------------------------------------
(* Bounds of the model.                                                    *)

\* float and int prices 0 .. MaxPriceCents hundredths are enumerated in SpecPrice
MaxPriceCents == 130
\* holding rows of the portfolio page's stocks table: 0 .. MaxHoldings
MaxHoldings == 2
\* order ids handed to cancel: lists of length 0 .. MaxCancelIds
MaxCancelIds == 2
\* order rows of the order book page: 0 .. MaxOrders
MaxOrders == 2
\* rows of the quotations table and of the trade log: 0 .. MaxRows
MaxRows == 2

---------------------------------------------------------------------------
(* Text: sequences of one-character strings.                               *)

DigitChars == <<"0", "1", "2", "3", "4", "5", "6", "7", "8", "9">>

DigitChar(d) == DigitChars[d + 1]

IsDigit(ch) == \E d \in 0..9 : DigitChars[d + 1] = ch

DigitVal(ch) == CHOOSE d \in 0..9 : DigitChars[d + 1] = ch

RECURSIVE Pow10(_)
Pow10(n) == IF n = 0 THEN 1 ELSE 10 * Pow10(n - 1)

\* the element of a one-element set: { F(x) : x \in {e} } computes e once and
\* names it x in F
Only(S) == CHOOSE x \in S : TRUE

\* str.replace(old, new) for a one-character old and a new of at most one
\* character: every occurrence is replaced
Replace(text, old, new) ==
  IF new = <<>> THEN SelectSeq(text, LAMBDA ch : ch # old)
  ELSE [i \in 1..Len(text) |-> IF text[i] = old THEN new[1] ELSE text[i]]

\* needle in hay, for two strings
IsSubstring(needle, hay) ==
  \E i \in 1..(Len(hay) - Len(needle) + 1) :
    SubSeq(hay, i, i + Len(needle) - 1) = needle

\* str(n) for a non-negative int
RECURSIVE NatStr(_)
NatStr(n) ==
  IF n < 10 THEN <<DigitChar(n)>>
  ELSE NatStr(n \div 10) \o <<DigitChar(n % 10)>>

\* the value of the first n digits of a string of digits (base 10)
RECURSIVE DigitsValTo(_, _)
DigitsValTo(ds, n) ==
  IF n = 0 THEN 0 ELSE 10 * DigitsValTo(ds, n - 1) + DigitVal(ds[n])

\* the value of a string of digits (base 10)
DigitsVal(ds) == DigitsValTo(ds, Len(ds))

AllDigits(s) == \A i \in 1..Len(s) : IsDigit(s[i])

\* a float: num / 10^exp; ok = FALSE stands for the ValueError of float()/int()
Float(num, exp) == [ok |-> TRUE, num |-> num, exp |-> exp]

ValueError == [ok |-> FALSE, num |-> 0, exp |-> 0]

FloatEq(a, b) == a.ok /\ b.ok /\ a.num * Pow10(b.exp) = b.num * Pow10(a.exp)

\* float(n) for an int n
IntToFloat(n) == Float(n, 0)

\* str(x) for a float x >= 0 with at most two decimals: the shortest decimal
\* that reads back as x, with at least one digit after the point
FloatStr(x) ==
  LET h     == (x.num * 100) \div Pow10(x.exp)
      whole == h \div 100
      frac  == h % 100
  IN  NatStr(whole) \o <<".">> \o
      (IF frac % 10 = 0 THEN <<DigitChar(frac \div 10)>>
       ELSE <<DigitChar(frac \div 10), DigitChar(frac % 10)>>)

\* float(s) for an unsigned s: digits with at most one decimal point and at
\* least one digit
UnsignedFloat(s) ==
  LET dots == {i \in 1..Len(s) : s[i] = "."}
  IN  IF dots = {} THEN
        IF s # <<>> /\ AllDigits(s) THEN Float(DigitsVal(s), 0) ELSE ValueError
      ELSE IF Cardinality(dots) > 1 THEN ValueError
      ELSE LET i  == CHOOSE j \in dots : TRUE
               ip == SubSeq(s, 1, i - 1)
               fp == SubSeq(s, i + 1, Len(s))
           IN  IF AllDigits(ip) /\ AllDigits(fp) /\ Len(ip) + Len(fp) > 0
               THEN Float(DigitsVal(ip \o fp), Len(fp))
               ELSE ValueError

\* float(s): an optional sign, then an unsigned decimal
PyFloat(s) ==
  IF s # <<>> /\ Head(s) = "-"
  THEN LET x == UnsignedFloat(Tail(s))
       IN  IF x.ok THEN Float(0 - x.num, x.exp) ELSE ValueError
  ELSE UnsignedFloat(s)

\* int(s): a non-empty string of digits
PyInt(s) ==
  IF s # <<>> /\ AllDigits(s) THEN Float(DigitsVal(s), 0) ELSE ValueError

\* the parts of a text between the separators sep
RECURSIVE Split(_, _)
Split(text, sep) ==
  IF \A i \in 1..Len(text) : text[i] # sep THEN <<text>>
  ELSE LET i == CHOOSE j \in 1..Len(text) :
                  text[j] = sep /\ \A k \in 1..(j - 1) : text[k] # sep
       IN  <<SubSeq(text, 1, i - 1)>> \o Split(SubSeq(text, i + 1, Len(text)), sep)

RECURSIVE LStrip(_)
LStrip(text) ==
  IF text # <<>> /\ Head(text) = " " THEN LStrip(Tail(text)) ELSE text

RECURSIVE RStrip(_)
RStrip(text) ==
  IF text # <<>> /\ text[Len(text)] = " "
  THEN RStrip(SubSeq(text, 1, Len(text) - 1)) ELSE text

\* text.strip() for a text whose only whitespace is the space
Strip(text) == RStrip(LStrip(text))

---------------------------------------------------------------------------
(* The value normalizer.                                                   *)

_cast_float(text) ==
  Only({ PyFloat(s) : s \in {Replace(Replace(text, ".", <<>>), ",", <<".">>)} })

_cast_int(text) == Only({ PyInt(s) : s \in {Replace(text, ".", <<>>)} })

_cast_percentage(text) ==
  Only({ _cast_float(s) : s \in {Replace(text, "%", <<>>)} })

---------------------------------------------------------------------------
(* The session client: urls, responses, the request log.                   *)

Callers == {"c1", "c2"}

_host == "http://folhainvest.folha.uol.com.br"

\* '%s/%s' % (self._host, page), kept as the pair of its two parts
_geturl(page) == <<_host, page>>

LoginUrl == <<"http://login.folha.com.br", "login?done=http://folhainvest.folha.uol.com.br/carteira&service=folhainvest">>

\* where the portal may redirect a request: r.url is then not the url asked for
RedirectUrl == <<_host, "redirect">>

HTTP_OK == 200

\* the status codes a response may carry: success and a server error
StatusCodes == {HTTP_OK, 500}

NoHeader == [present |-> FALSE, text |-> <<>>]

Header(text) == [present |-> TRUE, text |-> text]

\* the h2 of a warning banner that has no h2 child
NoH2 == "<no h2>"

Headings == {"Saldo insuficiente", "Data invalida"}

NoPage == <<>>

\* a response of the session, or the exception the request raised
Response(status_code, url, warning, h2, set_cookie, page) ==
  [raised |-> FALSE, status_code |-> status_code, url |-> url,
   warning |-> warning, h2 |-> h2, set_cookie |-> set_cookie, page |-> page]

RequestException ==
  [raised |-> TRUE, status_code |-> 0, url |-> <<"", "">>,
   warning |-> FALSE, h2 |-> NoH2, set_cookie |-> NoHeader, page |-> NoPage]

NoResponse ==
  [raised |-> FALSE, status_code |-> 0, url |-> <<"", "">>,
   warning |-> FALSE, h2 |-> NoH2, set_cookie |-> NoHeader, page |-> NoPage]

ResolvedUrls(url) == {url, RedirectUrl}

\* a request made with requests.get/post, which opens a session of its own
Request_OwnSession(c, s, step, method, url, data, out) ==
  [caller |-> c, session |-> "throwaway", step |-> step, method |-> method,
   url |-> url, data |-> data, response |-> out]

\* one request of the log: who issued it, through which session, and what came back
Request(c, s, step, method, url, data, out) ==
  [caller |-> c, session |-> s, step |-> step, method |-> method,
   url |-> url, data |-> data, response |-> out]

NoData == [none |-> TRUE]

\* the log without the requests of caller c's previous call
Forget(c) == SelectSeq(log, LAMBDA q : q.caller # c)

RequestsOf(c) == SelectSeq(log, LAMBDA q : q.caller = c)

---------------------------------------------------------------------------
(* What a call gives back.                                                 *)

Status(status_code, description) ==
  [kind |-> "status", status_code |-> status_code,
   description |-> description, error |-> "", value |-> <<>>]

Raised(error) ==
  [kind |-> "raised", status_code |-> "", description |-> "",
   error |-> error, value |-> <<>>]

Returned(value) ==
  [kind |-> "value", status_code |-> "", description |-> "",
   error |-> "", value |-> value]

NoResult ==
  [kind |-> "none", status_code |-> "", description |-> "",
   error |-> "", value |-> <<>>]

\* a Python value handed as a price or a quantity: a float, an int or a str
FloatValue(x) == [type |-> "float", x |-> x, text |-> <<>>]

IntValue(n) == [type |-> "int", x |-> Float(n, 0), text |-> <<>>]

StrValue(text) == [type |-> "str", x |-> ValueError, text |-> text]

NoValue == [type |-> "none", x |-> ValueError, text |-> <<>>]

NoArgs ==
  [symbol |-> "", value |-> NoValue, quantity |-> NoValue,
   expiration_date |-> "", pricing |-> "", orders_id |-> <<>>,
   filter |-> "", view |-> ""]

CanCall(c) == pc[c] = "idle"

Init ==
  /\ session = "session0"
  /\ pc = [c \in Callers |-> "idle"]
  /\ op = [c \in Callers |-> "none"]
  /\ args = [c \in Callers |-> NoArgs]
  /\ r = [c \in Callers |-> NoResponse]
  /\ result = [c \in Callers |-> NoResult]
  /\ log = <<>>

---------------------------------------------------------------------------
(* login                                                                   *)

FOLHA_KEY == <<"F", "O", "L", "H", "A", "_", "K", "E", "Y">>

\* the set-cookie headers the login service may answer with
SetCookieHeaders ==
  { Header(FOLHA_KEY \o <<"=", "a">>),
    Header(<<"X">> \o FOLHA_KEY \o <<"=", "a">>),
    Header(FOLHA_KEY \o <<"2", "=", "a">>),
    Header(<<"S", "I", "D", "=", "a">>),
    Header(<<"S", "I", "D", "=", "a", ",", " ">> \o FOLHA_KEY \o <<"=", "b">>),
    Header(<<"S", "I", "D", "=">> \o FOLHA_KEY),
    Header(<<"F", "O", "L", "H", "A", "_", "K", "E", "=", "a">>),
    NoHeader }

LoginOutcomes ==
  {RequestException} \cup
  { Response(sc, LoginUrl, FALSE, NoH2, h, NoPage) :
      sc \in StatusCodes, h \in SetCookieHeaders }

LoginPayload(email, password) ==
  [email |-> email, password |-> password, auth |-> "Autenticar"]

\* 'FOLHA_KEY' in r.headers['set-cookie'], and the Status built from it;
\* r.headers[...] raises KeyError when the response has no such header
LoginResult(out) ==
  IF out.raised THEN Raised("RequestException")
  ELSE IF ~out.set_cookie.present THEN Raised("KeyError")
  ELSE IF IsSubstring(FOLHA_KEY, out.set_cookie.text)
       THEN Status("OK", "Login efetuado com sucesso")
       ELSE Status("FAIL", "Nao foi possivel efetuar o login")

login(c, email, password) ==
  /\ CanCall(c)
  /\ \E out \in LoginOutcomes :
       /\ log' = Append(Forget(c),
                        Request(c, session, "login", "POST", LoginUrl,
                                LoginPayload(email, password), out))
       /\ r' = [r EXCEPT ![c] = out]
       /\ result' = [result EXCEPT ![c] = LoginResult(out)]
  /\ pc' = [pc EXCEPT ![c] = "done"]
  /\ op' = [op EXCEPT ![c] = "login"]
  /\ args' = [args EXCEPT ![c] = NoArgs]
  /\ UNCHANGED session

---------------------------------------------------------------------------
(* The order protocol: buy, buy_start, sell, sell_stop through _order      *)

OrderKinds == {"buy", "buy_start", "sell", "sell_stop"}

\* a conversion that leaves the decimal point of str(value) in place
OrderValue_KeepsPoint(value) ==
  IF value.type = "float" THEN FloatStr(value.x)
  ELSE IF value.type = "int" THEN FloatStr(IntToFloat(value.x.num))
  ELSE value.text

\* the value placed in the payload: a float or an int becomes decimal-comma text
OrderValue(value) ==
  IF value.type = "float" THEN Replace(FloatStr(value.x), ".", <<",">>)
  ELSE IF value.type = "int"
       THEN Replace(FloatStr(IntToFloat(value.x.num)), ".", <<",">>)
  ELSE Replace(value.text, ".", <<",">>)

\* the quantity placed in the payload: int(quantity) for a float
OrderQuantity(quantity) ==
  IF quantity.type = "float"
  THEN IntValue(quantity.x.num \div Pow10(quantity.x.exp))
  ELSE quantity

\* a payload that carries 'pricing' whether or not one was given
OrderPayload_AlwaysPricing(symbol, value, quantity, expiration_date, pricing, start_stop, sell) ==
  [start_stop |-> start_stop, sell |-> sell, company |-> symbol,
   value |-> OrderValue(value), quantity |-> OrderQuantity(quantity),
   expiration_date |-> expiration_date, execute |-> "Executar",
   pricing |-> pricing]

OrderPayload(symbol, value, quantity, expiration_date, pricing, start_stop, sell) ==
  LET payload ==
        [start_stop |-> start_stop, sell |-> sell, company |-> symbol,
         value |-> OrderValue(value), quantity |-> OrderQuantity(quantity),
         expiration_date |-> expiration_date, execute |-> "Executar"]
  IN  IF pricing # "" THEN payload @@ [pricing |-> pricing] ELSE payload

ConfirmPayload == [confirm |-> "Confirmar"]

SubmitOutcomes(url) ==
  {RequestException} \cup
  { Response(sc, u, FALSE, NoH2, NoHeader, NoPage) :
      sc \in StatusCodes, u \in ResolvedUrls(url) } \cup
  { Response(sc, u, TRUE, h, NoHeader, NoPage) :
      sc \in StatusCodes, u \in ResolvedUrls(url), h \in Headings \cup {NoH2} }

ConfirmOutcomes(url) ==
  {RequestException} \cup
  { Response(sc, url, FALSE, NoH2, NoHeader, NoPage) : sc \in StatusCodes }

\* a find() that looks for a class no page carries: the banner is never found
FindWarning_WrongClass(out) == FALSE

\* BeautifulSoup(r.text).find(class_='message warning'): the banner or None
FindWarning(out) == out.warning

\* the first request of _order and what the handler does with its response:
\* without a banner it goes on to the confirm request, with one it returns FAIL
\* with the banner's h2 text (warning.h2 is None when the banner has no h2)
_order(c, url, symbol, value, quantity, expiration_date, pricing, start_stop, sell) ==
  /\ CanCall(c)
  /\ \E out \in SubmitOutcomes(url) :
       /\ log' = Append(Forget(c),
                        Request(c, session, "submit", "POST", url,
                                OrderPayload(symbol, value, quantity,
                                             expiration_date, pricing,
                                             start_stop, sell), out))
       /\ r' = [r EXCEPT ![c] = out]
       /\ IF out.raised
          THEN /\ result' = [result EXCEPT ![c] = Raised("RequestException")]
               /\ pc' = [pc EXCEPT ![c] = "done"]
          ELSE IF ~FindWarning(out)
          THEN /\ result' = [result EXCEPT ![c] = NoResult]
               /\ pc' = [pc EXCEPT ![c] = "confirm"]
          ELSE IF out.h2 = NoH2
          THEN /\ result' = [result EXCEPT ![c] = Raised("AttributeError")]
               /\ pc' = [pc EXCEPT ![c] = "done"]
          ELSE /\ result' = [result EXCEPT ![c] = Status("FAIL", out.h2)]
               /\ pc' = [pc EXCEPT ![c] = "done"]
  /\ args' = [args EXCEPT ![c] =
                [NoArgs EXCEPT !.symbol = symbol, !.value = value,
                               !.quantity = quantity,
                               !.expiration_date = expiration_date,
                               !.pricing = pricing]]
  /\ UNCHANGED session

\* an _order that reads the confirm response's status code
ConfirmResult_ChecksStatus(out) ==
  IF out.raised THEN Raised("RequestException")
  ELSE IF out.status_code = HTTP_OK THEN Status("OK", "Ordem enviada com sucesso")
  ELSE Status("FAIL", "Falha no envio da requisicao")

\* what _order returns once the confirm request is back: its response is not read
ConfirmResult(out) ==
  IF out.raised THEN Raised("RequestException")
  ELSE Status("OK", "Ordem enviada com sucesso")

\* the second request of _order, to r.url, and the return
order_confirm(c) ==
  /\ pc[c] = "confirm"
  /\ \E out \in ConfirmOutcomes(r[c].url) :
       /\ log' = Append(log, Request(c, session, "confirm", "POST", r[c].url,
                                     ConfirmPayload, out))
       /\ result' = [result EXCEPT ![c] = ConfirmResult(out)]
  /\ pc' = [pc EXCEPT ![c] = "done"]
  /\ UNCHANGED <<session, op, args, r>>

buy(c, symbol, value, quantity, expiration_date, pricing) ==
  /\ _order(c, _geturl("comprar"), symbol, value, quantity, expiration_date,
            pricing, 0, 0)
  /\ op' = [op EXCEPT ![c] = "buy"]

buy_start(c, symbol, value, quantity, expiration_date) ==
  /\ _order(c, _geturl("start"), symbol, value, quantity, expiration_date,
            "", 1, 0)
  /\ op' = [op EXCEPT ![c] = "buy_start"]

sell(c, symbol, value, quantity, expiration_date, pricing) ==
  /\ _order(c, _geturl("vender"), symbol, value, quantity, expiration_date,
            pricing, 0, 1)
  /\ op' = [op EXCEPT ![c] = "sell"]

sell_stop(c, symbol, value, quantity, expiration_date) ==
  /\ _order(c, _geturl("stop"), symbol, value, quantity, expiration_date,
            "", 1, 1)
  /\ op' = [op EXCEPT ![c] = "sell_stop"]

---------------------------------------------------------------------------
(* cancel and reset_portfolio                                              *)

\* the defaultdict(list): 'orders[]' exists only once an id was appended
CancelPayload(orders_id) ==
  IF orders_id # <<>>
  THEN ("orders[]" :> orders_id) @@ ("cancel" :> <<"Remover ordens">>)
  ELSE ("cancel" :> <<"Remover ordens">>)

StatusOutcomes(url) ==
  {RequestException} \cup
  { Response(sc, u, FALSE, NoH2, NoHeader, NoPage) :
      sc \in StatusCodes, u \in ResolvedUrls(url) }

\* r.status_code == 200 and len(payload) > 1
CancelResult(out, payload) ==
  IF out.raised THEN Raised("RequestException")
  ELSE IF out.status_code = HTTP_OK /\ Cardinality(DOMAIN payload) > 1
       THEN Status("OK", "Requisicao enviada com sucesso")
       ELSE Status("FAIL", "Falha no envio da requisicao")

cancel(c, orders_id) ==
  /\ CanCall(c)
  /\ \E out \in StatusOutcomes(_geturl("ordens")) :
       /\ log' = Append(Forget(c),
                        Request(c, session, "cancel", "POST", _geturl("ordens"),
                                CancelPayload(orders_id), out))
       /\ r' = [r EXCEPT ![c] = out]
       /\ result' = [result EXCEPT ![c] = CancelResult(out, CancelPayload(orders_id))]
  /\ pc' = [pc EXCEPT ![c] = "done"]
  /\ op' = [op EXCEPT ![c] = "cancel"]
  /\ args' = [args EXCEPT ![c] = [NoArgs EXCEPT !.orders_id = orders_id]]
  /\ UNCHANGED session

\* the GET of reset_portfolio
reset_portfolio(c) ==
  /\ CanCall(c)
  /\ \E out \in StatusOutcomes(_geturl("limpar")) :
       /\ log' = Append(Forget(c),
                        Request(c, session, "reset", "GET", _geturl("limpar"),
                                NoData, out))
       /\ r' = [r EXCEPT ![c] = out]
       /\ IF out.raised
          THEN /\ result' = [result EXCEPT ![c] = Raised("RequestException")]
               /\ pc' = [pc EXCEPT ![c] = "done"]
          ELSE /\ result' = [result EXCEPT ![c] = NoResult]
               /\ pc' = [pc EXCEPT ![c] = "reset_confirm"]
  /\ op' = [op EXCEPT ![c] = "reset_portfolio"]
  /\ args' = [args EXCEPT ![c] = NoArgs]
  /\ UNCHANGED session

\* r.status_code == 200 of the confirm response
ResetResult(out) ==
  IF out.raised THEN Raised("RequestException")
  ELSE IF out.status_code = HTTP_OK
       THEN Status("OK", "Requisicao enviada com sucesso")
       ELSE Status("FAIL", "Falha no envio da requisicao")

\* the confirm POST of reset_portfolio, to r.url, and the return
reset_confirm(c) ==
  /\ pc[c] = "reset_confirm"
  /\ \E out \in ConfirmOutcomes(r[c].url) :
       /\ log' = Append(log, Request(c, session, "confirm", "POST", r[c].url,
                                     ConfirmPayload, out))
       /\ r' = [r EXCEPT ![c] = out]
       /\ result' = [result EXCEPT ![c] = ResetResult(out)]
  /\ pc' = [pc EXCEPT ![c] = "done"]
  /\ UNCHANGED <<session, op, args>>

---------------------------------------------------------------------------
(* The document extractor: the portfolio page.  A page is the sequence of  *)
(* its table.fiTable tables, a table the sequence of its tr rows, a row    *)
(* the sequence of its td cells, a cell the text of its inner html.        *)

\* a value or the exception raised while computing it
Ok(val) == [err |-> "", val |-> val]

Err(error) == [err |-> error, val |-> <<>>]

\* the values of a sequence of computations, or the first exception raised
Collect(results) ==
  Only({ LET bad == {i \in 1..Len(rs) : rs[i].err # ""}
         IN  IF bad = {} THEN Ok([i \in 1..Len(rs) |-> rs[i].val])
             ELSE Err(rs[CHOOSE i \in bad : \A j \in bad : i <= j].err)
         : rs \in {results} })

None == [none |-> TRUE, text |-> <<>>]

Text(text) == [none |-> FALSE, text |-> text]

\* tag.string: the text of a cell that holds text only, None otherwise
CellString(cell) ==
  IF cell # <<>> /\ \A i \in 1..Len(cell) : cell[i] \notin {"<", ">"}
  THEN Text(cell) ELSE None

TdOpen == <<"<", "t", "d", ">">>

TdClose == <<"<", "/", "t", "d", ">">>

\* the positions re.findall('\>(.*?)\<', html) captures: a match opens at the
\* first '>' after the last '<' and runs up to the next '<', so position p is
\* captured when it holds no '<', a '<' follows it, and a '>' precedes it with
\* no '<' in between
Captured(html) ==
  { p \in 1..Len(html) :
      /\ html[p] # "<"
      /\ \E j \in (p + 1)..Len(html) : html[j] = "<"
      /\ \E i \in 1..(p - 1) :
           html[i] = ">" /\ \A k \in (i + 1)..(p - 1) : html[k] # "<" }

\* ''.join(re.findall('\>(.*?)\<', str(html))): the text between the tags
_get_symbol(html) ==
  Only({ Only({ [k \in 1..Cardinality(P) |->
                   h[CHOOSE p \in P : Cardinality({q \in P : q < p}) = k - 1]]
                : P \in {Captured(h)} })
         : h \in {html} })

\* the normalizer of that name applied to a text
Cast(cast, text) ==
  CASE cast = "_cast_int" -> _cast_int(text)
    [] cast = "_cast_float" -> _cast_float(text)
    [] cast = "_cast_percentage" -> _cast_percentage(text)

\* cols[i] (from 0): IndexError past the last cell
Col(cols, i) ==
  IF Len(cols) <= i THEN Err("IndexError") ELSE Ok(cols[i + 1])

\* cast(cols[i].string): IndexError past the last cell, AttributeError when
\* .string is None, ValueError when the text does not parse
CastCol(cols, i, cast) ==
  IF Len(cols) <= i THEN Err("IndexError")
  ELSE Only({ IF s.none THEN Err("AttributeError")
              ELSE Only({ IF x.ok THEN Ok(x) ELSE Err("ValueError")
                          : x \in {Cast(cast, s.text)} })
              : s \in {CellString(cols[i + 1])} })

\* one Stock from the cells of one row of the stocks table
StockOfRow(cols) ==
  LET symbol == IF Len(cols) <= 0 THEN Err("IndexError")
                ELSE Ok(_get_symbol(TdOpen \o cols[1] \o TdClose))
      name   == IF Len(cols) <= 1 THEN Err("IndexError")
                ELSE Ok(CellString(cols[2]))
  IN  Only({ IF f.err # "" THEN f
             ELSE Ok([symbol |-> f.val[1], name |-> f.val[2],
                      quantity |-> f.val[3], avg_value |-> f.val[4],
                      current_value |-> f.val[5], total_value |-> f.val[6],
                      profit |-> f.val[7], variation |-> f.val[8]])
             : f \in {Collect(<<symbol, name,
                                 CastCol(cols, 4, "_cast_int"),
                                 CastCol(cols, 5, "_cast_float"),
                                 CastCol(cols, 6, "_cast_float"),
                                 CastCol(cols, 7, "_cast_float"),
                                 CastCol(cols, 8, "_cast_float"),
                                 CastCol(cols, 9, "_cast_float")>>)} })

\* rows[1:]: every row but the first
SliceFrom1(rows) == SubSeq(rows, 2, Len(rows))

\* rows[1:-1]: every row but the first and the last
SliceFrom1ToLast(rows) == SubSeq(rows, 2, Len(rows) - 1)

\* a loop that skips the header row only
StockRows_KeepsFooter(table) == SliceFrom1(table)

\* the rows the stocks loop visits: table_stocks.select('tr')[1:-1]
StockRows(table) == SliceFrom1ToLast(table)

\* the stocks loop: one Stock per visited row, in row order
Stocks(table) ==
  Only({ Collect([i \in 1..Len(rows) |-> StockOfRow(rows[i])])
         : rows \in {StockRows(table)} })

\* the Overview: row 1 of the overview table, columns 0 to 2
OverviewOf(table) ==
  IF Len(table) <= 1 THEN Err("IndexError")
  ELSE Only({ IF f.err # "" THEN f
              ELSE Ok([total_capital |-> f.val[1], total_stocks |-> f.val[2],
                       total |-> f.val[3]])
              : f \in {Collect(<<CastCol(table[2], 0, "_cast_float"),
                                  CastCol(table[2], 1, "_cast_float"),
                                  CastCol(table[2], 2, "_cast_float")>>)} })

\* rows[i].select('td')[1] cast, for the rows after the header
ProfitabilityCell(rows, i, cast) ==
  IF Len(rows) <= i THEN Err("IndexError") ELSE CastCol(rows[i + 1], 1, cast)

\* a Profitability: column 1 of the three rows after the header
ProfitabilityOf(table) ==
  Only({ IF f.err # "" THEN f
         ELSE Ok([initial_position |-> f.val[1], current_position |-> f.val[2],
                  current_performance |-> f.val[3]])
         : f \in {Collect(<<ProfitabilityCell(SliceFrom1(table), 0, "_cast_float"),
                             ProfitabilityCell(SliceFrom1(table), 1, "_cast_float"),
                             ProfitabilityCell(SliceFrom1(table), 2, "_cast_percentage")>>)} })

\* what portfolio() makes of the page: a Portfolio, or the first exception
PortfolioOf(tables) ==
  IF Len(tables) < 4 THEN Err("IndexError")
  ELSE Only({ IF f.err # "" THEN f
              ELSE Ok([stocks |-> f.val[1], overview |-> f.val[2],
                       annual_profit |-> f.val[3], monthly_profit |-> f.val[4]])
              : f \in {Collect(<<Stocks(tables[1]), OverviewOf(tables[2]),
                                  ProfitabilityOf(tables[3]),
                                  ProfitabilityOf(tables[4])>>)} })

PortfolioResult(out) ==
  IF out.raised THEN Raised("RequestException")
  ELSE Only({ IF f.err # "" THEN Raised(f.err) ELSE Returned(f.val)
              : f \in {PortfolioOf(out.page)} })

\* the pages the portal may answer with
Anchor(text) == <<"<", "a", ">">> \o text \o <<"<", "/", "a", ">">>

EmptyCell == <<>>

\* a header row: th cells only, so select('td') is empty
HeaderRow == <<>>

\* the totals row that ends the stocks table
FooterRow == << <<"T", "o", "t", "a", "l">>, <<"2", "0", ".", "8", "0", "0", ",", "0", "0">> >>

\* PETR4 | Petro | | | 1.000 | 12,45 | 13,00 | 13.000,00 | 550,00 | 4,41
RowPETR4 ==
  << Anchor(<<"P", "E", "T", "R", "4">>), <<"P", "e", "t", "r", "o">>,
     EmptyCell, EmptyCell, <<"1", ".", "0", "0", "0">>,
     <<"1", "2", ",", "4", "5">>, <<"1", "3", ",", "0", "0">>,
     <<"1", "3", ".", "0", "0", "0", ",", "0", "0">>,
     <<"5", "5", "0", ",", "0", "0">>, <<"4", ",", "4", "1">> >>

\* VALE5 | Vale | | | 200 | 40,10 | 39,00 | 7.800,00 | -220,00 | -2,74
RowVALE5 ==
  << Anchor(<<"V", "A", "L", "E", "5">>), <<"V", "a", "l", "e">>,
     EmptyCell, EmptyCell, <<"2", "0", "0">>,
     <<"4", "0", ",", "1", "0">>, <<"3", "9", ",", "0", "0">>,
     <<"7", ".", "8", "0", "0", ",", "0", "0">>,
     <<"-", "2", "2", "0", ",", "0", "0">>, <<"-", "2", ",", "7", "4">> >>

\* a holding row cut short, and one whose quantity is not a number
RowShort == << Anchor(<<"P", "E", "T", "R", "4">>), <<"P", "e", "t", "r", "o">> >>

RowBadQuantity == [RowPETR4 EXCEPT ![5] = <<"n", "/", "d">>]

GoodHoldingRows == {RowPETR4, RowVALE5}

HoldingRows == GoodHoldingRows \cup {RowShort, RowBadQuantity}

RECURSIVE SeqsUpTo(_, _)
SeqsUpTo(S, n) ==
  IF n = 0 THEN {<<>>}
  ELSE LET shorter == SeqsUpTo(S, n - 1)
       IN  shorter \cup {Append(q, x) : q \in shorter, x \in S}

\* header, holding rows, footer; and tables without that shape: no row, the
\* header alone, no footer
StocksTables ==
  { <<HeaderRow>> \o rows \o <<FooterRow>> : rows \in SeqsUpTo(HoldingRows, MaxHoldings) }
  \cup { <<>>, <<HeaderRow>>, <<HeaderRow, RowPETR4, RowVALE5>> }

OverviewTable ==
  << HeaderRow,
     << <<"1", "0", ".", "0", "0", "0", ",", "0", "0">>,
        <<"2", "0", ".", "8", "0", "0", ",", "0", "0">>,
        <<"3", "0", ".", "8", "0", "0", ",", "0", "0">> >> >>

ProfitabilityTable ==
  << HeaderRow,
     << <<"i">>, <<"1", "0", "0", ".", "0", "0", "0", ",", "0", "0">> >>,
     << <<"c">>, <<"3", "0", ".", "8", "0", "0", ",", "0", "0">> >>,
     << <<"p">>, <<"-", "6", "9", ",", "2", "0", "%">> >> >>

\* a profitability table whose performance row is missing
ProfitabilityTableShort == SubSeq(ProfitabilityTable, 1, 3)

PortfolioPages ==
  { <<st, ov, an, ProfitabilityTable>> :
      st \in StocksTables, ov \in {OverviewTable, <<HeaderRow>>},
      an \in {ProfitabilityTable, ProfitabilityTableShort} }
  \cup { <<>>, <<<<HeaderRow, FooterRow>>, OverviewTable>> }

PortfolioOutcomes ==
  {RequestException} \cup
  { Response(sc, _geturl("carteira"), FALSE, NoH2, NoHeader, page) :
      sc \in StatusCodes, page \in PortfolioPages }

portfolio(c) ==
  /\ CanCall(c)
  /\ \E out \in PortfolioOutcomes :
       /\ log' = Append(Forget(c),
                        Request(c, session, "portfolio", "GET",
                                _geturl("carteira"), NoData, out))
       /\ r' = [r EXCEPT ![c] = out]
       /\ result' = [result EXCEPT ![c] = PortfolioResult(out)]
  /\ pc' = [pc EXCEPT ![c] = "done"]
  /\ op' = [op EXCEPT ![c] = "portfolio"]
  /\ args' = [args EXCEPT ![c] = NoArgs]
  /\ UNCHANGED session

---------------------------------------------------------------------------
(* The order book, quotations, trade log and user-info pages.  On these    *)
(* pages a cell (a td or a p) is the sequence of its child nodes: text     *)
(* nodes and elements (b, a, input) that hold text only.                   *)

TextNode(text) == [tag |-> "#text", text |-> text, value |-> None]

Element(tag, text) == [tag |-> tag, text |-> text, value |-> None]

\* <input value="...">; value is None when the attribute is missing
InputTag(value) == [tag |-> "input", text |-> <<>>, value |-> value]

\* what tag.b, tag.a or tag.input gives when there is no such child: None
NoTag == [tag |-> "none", text |-> <<>>, value |-> None]

\* tag.<name>: the first child element of that name
Child(children, name) ==
  LET found == {i \in 1..Len(children) : children[i].tag = name}
  IN  IF found = {} THEN NoTag
      ELSE children[CHOOSE i \in found : \A j \in found : i <= j]

\* tag.string for a tag with these children: the text of an only child (a
\* text node, or an element that holds text), None otherwise
TagString(children) ==
  IF Len(children) # 1 THEN None
  ELSE IF children[1].text = <<>> THEN None ELSE Text(children[1].text)

\* str(x) for a string or None
PyStr(s) == IF s.none THEN <<"N", "o", "n", "e">> ELSE s.text

\* str(cols[i].string)
StrCol(cols, i) ==
  IF Len(cols) <= i THEN Err("IndexError")
  ELSE Ok(PyStr(TagString(cols[i + 1])))

\* str(cols[i].b.string): AttributeError when the cell has no b
StrColB(cols, i) ==
  IF Len(cols) <= i THEN Err("IndexError")
  ELSE Only({ IF b = NoTag THEN Err("AttributeError")
              ELSE Ok(PyStr(TagString(<<b>>)))
              : b \in {Child(cols[i + 1], "b")} })

\* cast(cols[i].string) on these pages
CastTag(cols, i, cast) ==
  IF Len(cols) <= i THEN Err("IndexError")
  ELSE Only({ IF s.none THEN Err("AttributeError")
              ELSE Only({ IF x.ok THEN Ok(x) ELSE Err("ValueError")
                          : x \in {Cast(cast, s.text)} })
              : s \in {TagString(cols[i + 1])} })

---------------------------------------------------------------------------
(* orders_status                                                           *)

mercado == <<"m", "e", "r", "c", "a", "d", "o">>

\* the 0.0 an order sent at market is given
MarketValue == Float(0, 1)

\* int(cols[0].input['value'])
OrderId(cols) ==
  IF Len(cols) <= 0 THEN Err("IndexError")
  ELSE Only({ IF inp = NoTag THEN Err("TypeError")
              ELSE IF inp.value.none THEN Err("KeyError")
              ELSE Only({ IF x.ok THEN Ok(x) ELSE Err("ValueError")
                          : x \in {PyInt(inp.value.text)} })
              : inp \in {Child(cols[1], "input")} })

\* value = cols[4].string
ValueCell(cols) ==
  IF Len(cols) <= 4 THEN Err("IndexError") ELSE Ok(TagString(cols[5]))

\* a marker test that wants the whole text to be the marker
IsMarket_WholeText(value) == value = mercado

\* 'mercado' in value
IsMarket(value) == IsSubstring(mercado, value)

\* the value of the record: 0.0 for the market marker, _cast_float otherwise;
\* `in` raises TypeError when value is None
OrderStatusValue(cell) ==
  IF cell.err # "" THEN cell
  ELSE IF cell.val.none THEN Err("TypeError")
  ELSE IF IsMarket(cell.val.text) THEN Ok(MarketValue)
  ELSE Only({ IF x.ok THEN Ok(x) ELSE Err("ValueError")
              : x \in {_cast_float(cell.val.text)} })

\* one OrderStatus from the cells of one row
OrderStatusOfRow(cols) ==
  Only({ IF f.err # "" THEN f
         ELSE Ok([id |-> f.val[1], type |-> f.val[2], symbol |-> f.val[3],
                  quantity |-> f.val[4], value |-> f.val[8],
                  expiration_date |-> f.val[6], status |-> f.val[7]])
         : f \in {Collect(<<OrderId(cols), StrColB(cols, 1), StrColB(cols, 2),
                             CastTag(cols, 3, "_cast_int"), ValueCell(cols),
                             StrCol(cols, 5), StrColB(cols, 6),
                             OrderStatusValue(ValueCell(cols))>>)} })

\* the loop over select('table.fiTable')[0].select('tr')[1:]
OrdersOf(tables) ==
  IF Len(tables) < 1 THEN Err("IndexError")
  ELSE Only({ Collect([i \in 1..Len(rows) |-> OrderStatusOfRow(rows[i])])
              : rows \in {SliceFrom1(tables[1])} })

OrdersResult(out) ==
  IF out.raised THEN Raised("RequestException")
  ELSE Only({ IF f.err # "" THEN Raised(f.err) ELSE Returned(f.val)
              : f \in {OrdersOf(out.page)} })

\* the rows of the order book: id | type | symbol | quantity | value | date | status
OrderRow(id, value) ==
  << <<InputTag(Text(id))>>,
     <<Element("b", <<"C", "o", "m", "p", "r", "a">>)>>,
     <<Element("b", <<"P", "E", "T", "R", "4">>)>>,
     <<TextNode(<<"1", ".", "0", "0", "0">>)>>,
     value,
     <<TextNode(<<"3", "1", "/", "1", "2", "/", "2", "1", "0", "0">>)>>,
     <<Element("b", <<"P", "e", "n", "d", "e", "n", "t", "e">>)>> >>

\* value cells: 12,45 | 0,00 | a mercado | mercado 12,45 | <b>mercado</b>
FixedCell == <<TextNode(<<"1", "2", ",", "4", "5">>)>>

ZeroCell == <<TextNode(<<"0", ",", "0", "0">>)>>

MarketCell == <<TextNode(<<"a", " ">> \o mercado)>>

MarketPricedCell == <<TextNode(mercado \o <<" ", "1", "2", ",", "4", "5">>)>>

MarketBoldCell == <<Element("b", mercado)>>

\* value cells the loop cannot read: a <b>mercado</b> | (empty) | n/d
MarketMixedCell == <<TextNode(<<"a", " ">>), Element("b", mercado)>>

NoChildren == <<>>

UnpricedCell == <<TextNode(<<"n", "/", "d">>)>>

GoodValueCells ==
  {FixedCell, ZeroCell, MarketCell, MarketPricedCell, MarketBoldCell}

ValueCells == GoodValueCells \cup {MarketMixedCell, NoChildren, UnpricedCell}

OrderRowId == <<"1", "0", "1">>

GoodOrderRows == { OrderRow(OrderRowId, v) : v \in GoodValueCells }

\* a row cut short after the quantity, and one whose id input has no value
OrderRowShort == SubSeq(OrderRow(OrderRowId, FixedCell), 1, 4)

OrderRowNoId == [OrderRow(OrderRowId, FixedCell) EXCEPT ![1] = <<InputTag(None)>>]

OrderRows ==
  { OrderRow(OrderRowId, v) : v \in ValueCells } \cup {OrderRowShort, OrderRowNoId}

\* header and order rows; a table without rows
OrdersTables ==
  { <<HeaderRow>> \o rows : rows \in SeqsUpTo(OrderRows, MaxOrders) } \cup { <<>> }

OrdersPages == { <<t>> : t \in OrdersTables } \cup { <<>> }

Filters == {"all", "cancelled", "executed", "pendent"}

OrdersUrl(filter) == _geturl("ordens?f=" \o filter)

\* a post to the order book that carries the cancel form
OrdersData_CancelForm == CancelPayload(<<>>)

\* self._session.post(url): the request has no data
OrdersData == NoData

OrdersOutcomes(filter) ==
  {RequestException} \cup
  { Response(sc, OrdersUrl(filter), FALSE, NoH2, NoHeader, page) :
      sc \in StatusCodes, page \in OrdersPages }

orders_status(c, filter) ==
  /\ CanCall(c)
  /\ \E out \in OrdersOutcomes(filter) :
       /\ log' = Append(Forget(c),
                        Request(c, session, "orders_status", "POST",
                                OrdersUrl(filter), OrdersData, out))
       /\ r' = [r EXCEPT ![c] = out]
       /\ result' = [result EXCEPT ![c] = OrdersResult(out)]
  /\ pc' = [pc EXCEPT ![c] = "done"]
  /\ op' = [op EXCEPT ![c] = "orders_status"]
  /\ args' = [args EXCEPT ![c] = [NoArgs EXCEPT !.filter = filter]]
  /\ UNCHANGED session

---------------------------------------------------------------------------
(* info: the user-info panel                                               *)

\* text.split(' ')[0], then _cast_int
_cast_rank(text) == Only({ _cast_int(t[1]) : t \in {Split(text, " ")} })

\* text.strip().split(' ')[1], then _cast_float: IndexError when the text has
\* a single token, ValueError when the second token does not parse
_cast_currency(text) ==
  Only({ IF Len(t) < 2 THEN Err("IndexError")
         ELSE Only({ IF x.ok THEN Ok(x) ELSE Err("ValueError")
                     : x \in {_cast_float(t[2])} })
         : t \in {Split(Strip(text), " ")} })

\* user_info[i].b.extract(): the paragraph loses its first b; IndexError when
\* there is no i-th paragraph, AttributeError when it has no b
ExtractB(user_info, i) ==
  IF Len(user_info) <= i THEN Err("IndexError")
  ELSE Only({ IF found = {} THEN Err("AttributeError")
              ELSE Only({ Ok(SubSeq(p, 1, k - 1) \o SubSeq(p, k + 1, Len(p)))
                          : k \in {CHOOSE i1 \in found : \A j \in found : i1 <= j} })
              : found \in {{k \in 1..Len(user_info[i + 1]) :
                              user_info[i + 1][k].tag = "b"}},
                p \in {user_info[i + 1]} })

\* _cast_rank(user_info[i].string) once the b is gone
RankOf(p) ==
  IF p.err # "" THEN p
  ELSE Only({ IF s.none THEN Err("AttributeError")
              ELSE Only({ IF x.ok THEN Ok(x) ELSE Err("ValueError")
                          : x \in {_cast_rank(s.text)} })
              : s \in {TagString(p.val)} })

\* _cast_currency(user_info[i].string) once the b is gone
CurrencyOf(p) ==
  IF p.err # "" THEN p
  ELSE Only({ IF s.none THEN Err("AttributeError") ELSE _cast_currency(s.text)
              : s \in {TagString(p.val)} })

\* the Info of the page: select('#userInfo')[0].select('p'), the five b tags
\* taken out, then the five casts
InfoOf(panels) ==
  IF Len(panels) < 1 THEN Err("IndexError")
  ELSE Only({ Only({ IF f.err # "" THEN f
                     ELSE Ok([capital |-> f.val[8], daily_limit |-> f.val[9],
                              remaining_limit |-> f.val[10],
                              monthly_ranking |-> f.val[6],
                              annual_ranking |-> f.val[7]])
                     : f \in {Collect(p \o <<RankOf(p[1]), RankOf(p[2]),
                                              CurrencyOf(p[3]), CurrencyOf(p[4]),
                                              CurrencyOf(p[5])>>)} })
              : p \in {[i \in 1..5 |-> ExtractB(panels[1], i - 1)]} })

InfoResult(out) ==
  IF out.raised THEN Raised("RequestException")
  ELSE Only({ IF f.err # "" THEN Raised(f.err) ELSE Returned(f.val)
              : f \in {InfoOf(out.page)} })

\* the paragraphs of the panel: <b>label</b> text
Paragraph(text) == <<Element("b", <<"l", "a", "b", "e", "l">>), TextNode(text)>>

\* 12 lugar | 3 lugar | R$ 1.234,56 | R$ 500,00 | R$ 20,50
UserInfo ==
  << Paragraph(<<"1", "2", " ", "l", "u", "g", "a", "r">>),
     Paragraph(<<"3", " ", "l", "u", "g", "a", "r">>),
     Paragraph(<<"R", "$", " ", "1", ".", "2", "3", "4", ",", "5", "6">>),
     Paragraph(<<"R", "$", " ", "5", "0", "0", ",", "0", "0">>),
     Paragraph(<<" ", "R", "$", " ", "2", "0", ",", "5", "0", " ">>) >>

\* panels the casts cannot read: a paragraph short, a label not in bold, a
\* rank that is no number, a currency without its sign, a paragraph with a link
UserInfoPanels ==
  { UserInfo,
    SubSeq(UserInfo, 1, 4),
    [UserInfo EXCEPT ![2] = <<TextNode(<<"3", " ", "l", "u", "g", "a", "r">>)>>],
    [UserInfo EXCEPT ![1] = Paragraph(<<"n", "/", "d">>)],
    [UserInfo EXCEPT ![4] = Paragraph(<<"5", "0", "0", ",", "0", "0">>)],
    [UserInfo EXCEPT ![5] = Paragraph(<<"R", "$">>) \o <<Element("a", <<"x">>)>>],
    [UserInfo EXCEPT ![3] = <<Element("b", <<"l", "a", "b", "e", "l">>)>>] }

InfoPages == { <<u>> : u \in UserInfoPanels } \cup { <<>> }

InfoOutcomes ==
  {RequestException} \cup
  { Response(sc, _geturl("ordens"), FALSE, NoH2, NoHeader, page) :
      sc \in StatusCodes, page \in InfoPages }

info(c) ==
  /\ CanCall(c)
  /\ \E out \in InfoOutcomes :
       /\ log' = Append(Forget(c),
                        Request(c, session, "info", "GET", _geturl("ordens"),
                                NoData, out))
       /\ r' = [r EXCEPT ![c] = out]
       /\ result' = [result EXCEPT ![c] = InfoResult(out)]
  /\ pc' = [pc EXCEPT ![c] = "done"]
  /\ op' = [op EXCEPT ![c] = "info"]
  /\ args' = [args EXCEPT ![c] = NoArgs]
  /\ UNCHANGED session

---------------------------------------------------------------------------
(* quotations                                                              *)

\* one Quote from the cells of one row
QuoteOfRow(cols) ==
  Only({ IF f.err # "" THEN f
         ELSE Ok([symbol |-> f.val[1], name |-> f.val[2],
                  last_trade |-> f.val[3], trade_time |-> f.val[4],
                  variation |-> f.val[5], open |-> f.val[6], close |-> f.val[7],
                  high |-> f.val[8], low |-> f.val[9], volume |-> f.val[10]])
         : f \in {Collect(<<StrColB(cols, 1), StrCol(cols, 3),
                             CastTag(cols, 5, "_cast_float"), StrCol(cols, 6),
                             CastTag(cols, 7, "_cast_percentage"),
                             CastTag(cols, 8, "_cast_float"),
                             CastTag(cols, 9, "_cast_float"),
                             CastTag(cols, 10, "_cast_float"),
                             CastTag(cols, 11, "_cast_float"),
                             CastTag(cols, 12, "_cast_int")>>)} })

\* the loop over select('table.fiTable')[0].select('tr')[1:]
QuotesOf(tables) ==
  IF Len(tables) < 1 THEN Err("IndexError")
  ELSE Only({ Collect([i \in 1..Len(rows) |-> QuoteOfRow(rows[i])])
              : rows \in {SliceFrom1(tables[1])} })

QuotationsResult(out) ==
  IF out.raised THEN Raised("RequestException")
  ELSE Only({ IF f.err # "" THEN Raised(f.err) ELSE Returned(f.val)
              : f \in {QuotesOf(out.page)} })

\* | PETR4 | | Petrobras | | 13,00 | 10:15 | 4,41% | 12,50 | 12,45 | 13,10 | 12,40 | 1.500
QuoteRow ==
  << NoChildren, <<Element("b", <<"P", "E", "T", "R", "4">>)>>, NoChildren,
     <<TextNode(<<"P", "e", "t", "r", "o", "b", "r", "a", "s">>)>>, NoChildren,
     <<TextNode(<<"1", "3", ",", "0", "0">>)>>,
     <<TextNode(<<"1", "0", ":", "1", "5">>)>>,
     <<TextNode(<<"4", ",", "4", "1", "%">>)>>,
     <<TextNode(<<"1", "2", ",", "5", "0">>)>>,
     <<TextNode(<<"1", "2", ",", "4", "5">>)>>,
     <<TextNode(<<"1", "3", ",", "1", "0">>)>>,
     <<TextNode(<<"1", "2", ",", "4", "0">>)>>,
     <<TextNode(<<"1", ".", "5", "0", "0">>)>> >>

\* a row without its volume, one without a name, one never traded today
QuoteRowShort == SubSeq(QuoteRow, 1, 12)

QuoteRowNoName == [QuoteRow EXCEPT ![4] = NoChildren]

QuoteRowNoTrade == [QuoteRow EXCEPT ![6] = <<TextNode(<<"-">>)>>]

QuoteRows == {QuoteRow, QuoteRowShort, QuoteRowNoName, QuoteRowNoTrade}

QuotesTables ==
  { <<HeaderRow>> \o rows : rows \in SeqsUpTo(QuoteRows, MaxRows) } \cup { <<>> }

QuotesPages == { <<t>> : t \in QuotesTables } \cup { <<>> }

Views == {"", "portfolio"}

QuotationsUrl(view) == _geturl("cotacoes?view_option=" \o view)

QuotationsOutcomes(view) ==
  {RequestException} \cup
  { Response(sc, QuotationsUrl(view), FALSE, NoH2, NoHeader, page) :
      sc \in StatusCodes, page \in QuotesPages }

quotations(c, view) ==
  /\ CanCall(c)
  /\ \E out \in QuotationsOutcomes(view) :
       /\ log' = Append(Forget(c),
                        Request(c, session, "quotations", "GET",
                                QuotationsUrl(view), NoData, out))
       /\ r' = [r EXCEPT ![c] = out]
       /\ result' = [result EXCEPT ![c] = QuotationsResult(out)]
  /\ pc' = [pc EXCEPT ![c] = "done"]
  /\ op' = [op EXCEPT ![c] = "quotations"]
  /\ args' = [args EXCEPT ![c] = [NoArgs EXCEPT !.view = view]]
  /\ UNCHANGED session

---------------------------------------------------------------------------
(* simulator_trades: the page is the sequence of its tables, each with its *)
(* class and its rows.                                                     *)

Table(class, rows) == [class |-> class, rows |-> rows]

\* [m.extract() for m in html.find_all('table', class_='marker')]
WithoutMarkers(tables) == SelectSeq(tables, LAMBDA t : t.class # "marker")

\* html.find('table', class_='logTable'): the first such table, or None
FindLogTable(tables) ==
  Only({ IF found = <<>> THEN Err("AttributeError") ELSE Ok(found[1].rows)
         : found \in {SelectSeq(tables, LAMBDA t : t.class = "logTable")} })

\* self._get_symbol(cols[0].a): str(None) is 'None' when the cell has no link
TradeSymbol(cols) ==
  IF Len(cols) <= 0 THEN Err("IndexError")
  ELSE Only({ IF a = NoTag THEN Ok(_get_symbol(<<"N", "o", "n", "e">>))
              ELSE Ok(_get_symbol(Anchor(a.text)))
              : a \in {Child(cols[1], "a")} })

\* one SimulatorTrade from the cells of one row
TradeOfRow(cols) ==
  Only({ IF f.err # "" THEN f
         ELSE Ok([symbol |-> f.val[1], executed |-> f.val[2],
                  pending |-> f.val[3], total |-> f.val[4]])
         : f \in {Collect(<<TradeSymbol(cols), CastTag(cols, 1, "_cast_int"),
                             CastTag(cols, 2, "_cast_int"),
                             CastTag(cols, 3, "_cast_int")>>)} })

\* the loop over the log table's select('tr')[1:-1]
TradesOf(tables) ==
  Only({ IF t.err # "" THEN t
         ELSE Only({ Collect([i \in 1..Len(rows) |-> TradeOfRow(rows[i])])
                     : rows \in {SliceFrom1ToLast(t.val)} })
         : t \in {FindLogTable(WithoutMarkers(tables))} })

TradesResult(out) ==
  IF out.raised THEN Raised("RequestException")
  ELSE Only({ IF f.err # "" THEN Raised(f.err) ELSE Returned(f.val)
              : f \in {TradesOf(out.page)} })

\* PETR4 | 1.200 | 30 | 1.230
TradeRow ==
  << <<Element("a", <<"P", "E", "T", "R", "4">>)>>,
     <<TextNode(<<"1", ".", "2", "0", "0">>)>>, <<TextNode(<<"3", "0">>)>>,
     <<TextNode(<<"1", ".", "2", "3", "0">>)>> >>

\* a row whose symbol is no link, one without its total, one with a dash
TradeRowNoLink == [TradeRow EXCEPT ![1] = <<TextNode(<<"P", "E", "T", "R", "4">>)>>]

TradeRowShort == SubSeq(TradeRow, 1, 3)

TradeRowDash == [TradeRow EXCEPT ![3] = <<TextNode(<<"-">>)>>]

TradeRows == {TradeRow, TradeRowNoLink, TradeRowShort, TradeRowDash}

TradeFooterRow == << <<TextNode(<<"T", "o", "t", "a", "l">>)>> >>

\* header, trade rows, footer; the same without the footer; no row at all
LogTables ==
  { <<HeaderRow>> \o rows \o <<TradeFooterRow>> : rows \in SeqsUpTo(TradeRows, MaxRows) }
  \cup { <<HeaderRow, TradeRow>>, <<>> }

MarkerTable == Table("marker", <<HeaderRow>>)

TradesPages ==
  { <<MarkerTable, Table("logTable", rows)>> : rows \in LogTables } \cup
  { <<Table("logTable", rows)>> : rows \in LogTables } \cup
  { <<>>, <<MarkerTable>> }

TradesOutcomes ==
  {RequestException} \cup
  { Response(sc, _geturl("negociacoes"), FALSE, NoH2, NoHeader, page) :
      sc \in StatusCodes, page \in TradesPages }

simulator_trades(c) ==
  /\ CanCall(c)
  /\ \E out \in TradesOutcomes :
       /\ log' = Append(Forget(c),
                        Request(c, session, "simulator_trades", "GET",
                                _geturl("negociacoes"), NoData, out))
       /\ r' = [r EXCEPT ![c] = out]
       /\ result' = [result EXCEPT ![c] = TradesResult(out)]
  /\ pc' = [pc EXCEPT ![c] = "done"]
  /\ op' = [op EXCEPT ![c] = "simulator_trades"]
  /\ args' = [args EXCEPT ![c] = NoArgs]
  /\ UNCHANGED session

---------------------------------------------------------------------------
(* The caller takes what the call returned or raised; its locals are gone  *)
(* and it may call again.                                                  *)

done(c) ==
  /\ pc[c] = "done"
  /\ pc' = [pc EXCEPT ![c] = "idle"]
  /\ op' = [op EXCEPT ![c] = "none"]
  /\ args' = [args EXCEPT ![c] = NoArgs]
  /\ r' = [r EXCEPT ![c] = NoResponse]
  /\ result' = [result EXCEPT ![c] = NoResult]
  /\ log' = Forget(c)
  /\ UNCHANGED session

---------------------------------------------------------------------------
(* The specifications.  Spec: one caller at a time on the client.          *)

Emails == {"user@example.com"}

Passwords == {"secret"}

Symbols == {"PETR4"}

ExpirationDates == {"31/12/2100"}

Pricings == {"fixed", "market"}

\* prices: 12.45, 1234.5 and 7.0 as floats, 12 as an int, '12,45' and '12.45' as text
PriceInputs ==
  { FloatValue(Float(1245, 2)), FloatValue(Float(12345, 1)),
    FloatValue(Float(70, 1)), IntValue(12),
    StrValue(<<"1", "2", ",", "4", "5">>),
    StrValue(<<"1", "2", ".", "4", "5">>) }

\* quantities: 100 as an int, 10.0 and 10.5 and 0.9 as floats, '1.000' as text
QuantityInputs ==
  { IntValue(100), FloatValue(Float(100, 1)), FloatValue(Float(105, 1)),
    FloatValue(Float(9, 1)), StrValue(<<"1", ".", "0", "0", "0">>) }

OrderIds == {101, 102}

ActiveCallers == {"c1"}

\* prices beyond MaxPriceCents, in hundredths: 999.99, 1000.0, 1234.56, 12345.67
LargePriceCents == {99999, 100000, 123456, 1234567}

\* the numeric prices of SpecPrice: floats with two decimals and ints
NumericPrices ==
  { FloatValue(Float(h, 2)) : h \in (0..MaxPriceCents) \cup LargePriceCents } \cup
  { IntValue(n) : n \in (0..MaxPriceCents) \cup {1000, 12345} }

Next ==
  \E c \in ActiveCallers :
    \/ \E e \in Emails, p \in Passwords : login(c, e, p)
    \/ \E s \in Symbols, v \in PriceInputs, q \in QuantityInputs,
          d \in ExpirationDates, m \in Pricings : buy(c, s, v, q, d, m)
    \/ \E s \in Symbols, v \in PriceInputs, q \in QuantityInputs,
          d \in ExpirationDates : buy_start(c, s, v, q, d)
    \/ \E s \in Symbols, v \in PriceInputs, q \in QuantityInputs,
          d \in ExpirationDates, m \in Pricings : sell(c, s, v, q, d, m)
    \/ \E s \in Symbols, v \in PriceInputs, q \in QuantityInputs,
          d \in ExpirationDates : sell_stop(c, s, v, q, d)
    \/ order_confirm(c)
    \/ \E ids \in SeqsUpTo(OrderIds, MaxCancelIds) : cancel(c, ids)
    \/ reset_portfolio(c)
    \/ reset_confirm(c)
    \/ portfolio(c)
    \/ \E f \in Filters : orders_status(c, f)
    \/ info(c)
    \/ \E v \in Views : quotations(c, v)
    \/ simulator_trades(c)
    \/ done(c)

Spec == Init /\ [][Next]_vars

\* order calls over the numeric prices, the other arguments fixed
NextPrice ==
  \E c \in ActiveCallers :
    \/ \E v \in NumericPrices, m \in Pricings :
         buy(c, "PETR4", v, IntValue(100), "31/12/2100", m)
    \/ \E v \in NumericPrices :
         buy_start(c, "PETR4", v, IntValue(100), "31/12/2100")
    \/ \E v \in NumericPrices, m \in Pricings :
         sell(c, "PETR4", v, IntValue(100), "31/12/2100", m)
    \/ \E v \in NumericPrices :
         sell_stop(c, "PETR4", v, IntValue(100), "31/12/2100")
    \/ order_confirm(c)
    \/ done(c)

SpecPrice == Init /\ [][NextPrice]_vars

\* two callers on the one client, each running write operations: nothing in
\* the class orders their steps, so every interleaving of the requests is a run
NextShared ==
  \E c \in Callers :
    \/ buy(c, "PETR4", IntValue(12), IntValue(100), "31/12/2100", "fixed")
    \/ sell_stop(c, "PETR4", IntValue(12), IntValue(100), "31/12/2100")
    \/ order_confirm(c)
    \/ cancel(c, <<101>>)
    \/ reset_portfolio(c)
    \/ reset_confirm(c)
    \/ done(c)

SpecShared == Init /\ [][NextShared]_vars

---------------------------------------------------------------------------
(* The properties.                                                         *)

WriteOps == OrderKinds \cup {"login", "cancel", "reset_portfolio"}

Finished(c) == pc[c] = "done"

IsOrderCall(c) == op[c] \in OrderKinds

\* the requests of caller c's current call with the given step
StepsOf(c, step) == SelectSeq(log, LAMBDA q : q.caller = c /\ q.step = step)

\* the submit request of caller c's order call (the first request of the call)
SubmitOf(c) == RequestsOf(c)[1]

HasBanner(c) ==
  /\ IsOrderCall(c)
  /\ RequestsOf(c) # <<>>
  /\ ~SubmitOf(c).response.raised
  /\ SubmitOf(c).response.warning

NoBanner(c) ==
  /\ IsOrderCall(c)
  /\ RequestsOf(c) # <<>>
  /\ ~SubmitOf(c).response.raised
  /\ ~SubmitOf(c).response.warning

IsOK(res) == res.kind = "status" /\ res.status_code = "OK"

IsFAIL(res) == res.kind = "status" /\ res.status_code = "FAIL"

C3_WriteAlwaysReturnsStatus ==
  \A c \in Callers :
    (Finished(c) /\ op[c] \in WriteOps) =>
      /\ result[c].kind = "status"
      /\ result[c].status_code \in {"OK", "FAIL"}

\* C4: a finished order call whose confirm request failed (it raised, or came
\* back with a status other than 200) returned Status FAIL.
C4_ConfirmFailureIsFAIL ==
  \A c \in Callers :
    (NoBanner(c) /\ Finished(c) /\ Len(RequestsOf(c)) = 2) =>
      LET confirm == RequestsOf(c)[2].response
      IN  (confirm.raised \/ confirm.status_code # HTTP_OK) => IsFAIL(result[c])

\* the cookie names of a set-cookie header: of each comma-separated cookie, the
\* text before its first '='
CookieNames(header) ==
  LET cookies == Split(header, ",")
  IN  { Split(LStrip(cookies[i]), "=")[1] : i \in 1..Len(cookies) }

\* C5: a finished login returned Status OK when the response's set-cookie
\* header names the cookie FOLHA_KEY, and Status FAIL for every other header
\* and for a response without the header.
C5_LoginIffCookieName ==
  \A c \in Callers :
    (Finished(c) /\ op[c] = "login" /\ ~r[c].raised) =>
      IF r[c].set_cookie.present /\ FOLHA_KEY \in CookieNames(r[c].set_cookie.text)
      THEN IsOK(result[c])
      ELSE IsFAIL(result[c])

\* C6: a finished cancel issued exactly one request, carrying the cancel
\* token, and when the request came back its Status is OK for a 200 response
\* and FAIL otherwise, however many ids were given (none included).
C6_CancelTransportOnly ==
  \A c \in Callers :
    (Finished(c) /\ op[c] = "cancel") =>
      /\ Len(RequestsOf(c)) = 1
      /\ "cancel" \in DOMAIN RequestsOf(c)[1].data
      /\ ~r[c].raised =>
           IF r[c].status_code = HTTP_OK THEN IsOK(result[c]) ELSE IsFAIL(result[c])

\* the endpoint and the two flags of each order kind
KindTable ==
  [buy       |-> [page |-> "comprar", start_stop |-> 0, sell |-> 0],
   buy_start |-> [page |-> "start",   start_stop |-> 1, sell |-> 0],
   sell      |-> [page |-> "vender",  start_stop |-> 0, sell |-> 1],
   sell_stop |-> [page |-> "stop",    start_stop |-> 1, sell |-> 1]]

IsIntegral(x) == x.num % Pow10(x.exp) = 0

\* C8: an order call given a non-integral float quantity issues no submit
\* request; one given an integer-valued float transmits the equal integer.
C8_NonIntegralQuantityRejected ==
  \A c \in Callers :
    (IsOrderCall(c) /\ args[c].quantity.type = "float") =>
      IF IsIntegral(args[c].quantity.x)
      THEN RequestsOf(c) # <<>> =>
             /\ SubmitOf(c).data.quantity.type = "int"
             /\ FloatEq(SubmitOf(c).data.quantity.x, args[c].quantity.x)
      ELSE RequestsOf(c) = <<>>

\* C9: the value field of every submit request made for a float or int price
\* is decimal-comma text (it holds no '.'), and _cast_float of that text is the
\* price the call was given.
C9_PriceRoundTrip ==
  \A c \in Callers :
    (IsOrderCall(c) /\ RequestsOf(c) # <<>> /\ args[c].value.type \in {"float", "int"}) =>
      LET text == SubmitOf(c).data.value
      IN  /\ \A i \in 1..Len(text) : text[i] # "."
          /\ FloatEq(_cast_float(text), args[c].value.x)

C9_Witness ==
  \E c \in Callers :
    /\ IsOrderCall(c)
    /\ RequestsOf(c) # <<>>
    /\ args[c].value = FloatValue(Float(105, 2))
    /\ SubmitOf(c).data.value = <<"1", ",", "0", "5">>
    /\ _cast_float(SubmitOf(c).data.value) = Float(105, 2)

\* what the two well-formed holding rows say
StockPETR4 ==
  [symbol |-> <<"P", "E", "T", "R", "4">>, name |-> Text(<<"P", "e", "t", "r", "o">>),
   quantity |-> Float(1000, 0), avg_value |-> Float(1245, 2),
   current_value |-> Float(1300, 2), total_value |-> Float(1300000, 2),
   profit |-> Float(55000, 2), variation |-> Float(441, 2)]

StockVALE5 ==
  [symbol |-> <<"V", "A", "L", "E", "5">>, name |-> Text(<<"V", "a", "l", "e">>),
   quantity |-> Float(200, 0), avg_value |-> Float(4010, 2),
   current_value |-> Float(3900, 2), total_value |-> Float(780000, 2),
   profit |-> Float(0 - 22000, 2), variation |-> Float(0 - 274, 2)]

ExpectedStock(row) == IF row = RowPETR4 THEN StockPETR4 ELSE StockVALE5

\* the page of caller c's portfolio call has a stocks table made of a header
\* row, holding rows and a footer row
HasStocksTable(c) ==
  /\ Finished(c)
  /\ op[c] = "portfolio"
  /\ ~r[c].raised
  /\ Len(r[c].page) >= 1
  /\ Len(r[c].page[1]) >= 2
  /\ r[c].page[1][1] = HeaderRow
  /\ r[c].page[1][Len(r[c].page[1])] = FooterRow

\* C10: for a portfolio page whose stocks table is a header row, N holding rows
\* and a footer row, a portfolio() that returns has exactly N stocks, the i-th
\* built from the i-th holding row; and it does return when the holding rows
\* and the other three tables are well formed.
C10_StocksRowCount ==
  \A c \in Callers :
    HasStocksTable(c) =>
      LET table == r[c].page[1]
          N     == Len(table) - 2
          good  == \A i \in 1..N : table[i + 1] \in GoodHoldingRows
      IN  /\ result[c].kind = "value" =>
               /\ good
               /\ Len(result[c].value.stocks) = N
               /\ \A i \in 1..N :
                    result[c].value.stocks[i] = ExpectedStock(table[i + 1])
          /\ (good /\ SubSeq(r[c].page, 2, Len(r[c].page))
                        = <<OverviewTable, ProfitabilityTable, ProfitabilityTable>>)
               => result[c].kind = "value"

C10_Witness ==
  \E c \in Callers :
    /\ HasStocksTable(c)
    /\ r[c].page[1] = <<HeaderRow, RowVALE5, RowPETR4, FooterRow>>
    /\ result[c].kind = "value"
    /\ result[c].value.stocks = <<StockVALE5, StockPETR4>>

\* caller c's orders_status call got a page with an order table
HasOrdersTable(c) ==
  /\ Finished(c)
  /\ op[c] = "orders_status"
  /\ ~r[c].raised
  /\ Len(r[c].page) >= 1

\* the order rows of that page: every row after the header
OrderRowsOf(c) == SliceFrom1(r[c].page[1])

\* the string of the value cell of a row carries the market marker
HasMarker(row) ==
  /\ Len(row) >= 5
  /\ ~TagString(row[5]).none
  /\ IsSubstring(mercado, TagString(row[5]).text)

Zero == Float(0, 0)

C12_ZeroIffMarket ==
  \A c \in Callers :
    (HasOrdersTable(c) /\ result[c].kind = "value") =>
      \A i \in 1..Len(OrderRowsOf(c)) :
        LET row == OrderRowsOf(c)[i]
            rec == result[c].value[i]
        IN  /\ FloatEq(rec.value, Zero) <=> HasMarker(row)
            /\ ~HasMarker(row) =>
                 rec.value = _cast_float(TagString(row[5]).text)


ReadOps == {"info", "orders_status", "portfolio", "quotations", "simulator_trades"}

\* str(None): what a record field holds when its cell had no string
NoneText == <<"N", "o", "n", "e">>

\* the rows of a table after its header that are not the totals footer
DataRows(table, footer) == {i \in 2..Len(table) : table[i] # footer}

\* the log table of a trade log page
LogTableOf(page) == FindLogTable(WithoutMarkers(page)).val

\* every field of every record caller c's read call returned was read from the
\* page, and the collection has one record per data row of the page
Populated(c) ==
  LET v == result[c].value
  IN  CASE op[c] = "portfolio" ->
             /\ \A i \in 1..Len(v.stocks) :
                  ~v.stocks[i].name.none /\ v.stocks[i].symbol # <<>>
             /\ Len(v.stocks) = Cardinality(DataRows(r[c].page[1], FooterRow))
        [] op[c] = "orders_status" ->
             /\ \A i \in 1..Len(v) :
                  NoneText \notin {v[i].type, v[i].symbol, v[i].expiration_date,
                                   v[i].status}
             /\ Len(v) = Cardinality(DataRows(r[c].page[1], <<>>))
        [] op[c] = "quotations" ->
             /\ \A i \in 1..Len(v) :
                  NoneText \notin {v[i].symbol, v[i].name, v[i].trade_time}
             /\ Len(v) = Cardinality(DataRows(r[c].page[1], <<>>))
        [] op[c] = "simulator_trades" ->
             /\ \A i \in 1..Len(v) : v[i].symbol # <<>>
             /\ Len(v) = Cardinality(DataRows(LogTableOf(r[c].page), TradeFooterRow))
        [] op[c] = "info" ->
             /\ v.capital.ok /\ v.daily_limit.ok /\ v.remaining_limit.ok
             /\ v.monthly_ranking.ok /\ v.annual_ranking.ok

\* C13: a read operation that returns gives records whose fields are all read
\* from the page and a collection that is not cut short; whenever a table, row,
\* cell or scalar is missing or malformed the call raises.
C13_ReadAllOrNothing ==
  \A c \in Callers :
    (Finished(c) /\ op[c] \in ReadOps /\ result[c].kind = "value") => Populated(c)


WriteSteps == {"login", "submit", "confirm", "cancel", "reset"}

\* C14: on the shared session no request of another caller's write operation
\* falls between two requests of one call (the submit and the confirm of an
\* order, the GET and the confirm POST of reset_portfolio), so the request
\* right before a confirm is the first request of the same call.
C14_NoInterleaving ==
  /\ \A i, j, k \in 1..Len(log) :
       (i < j /\ j < k /\ log[i].caller = log[k].caller
          /\ log[k].step = "confirm" /\ log[j].step \in WriteSteps)
         => log[j].caller = log[i].caller
  /\ \A k \in 1..Len(log) :
       log[k].step = "confirm" =>
         /\ k > 1
         /\ log[k - 1].caller = log[k].caller
         /\ log[k - 1].step \in {"submit", "reset"}


\* the state of the order of caller c's order call, as the portal was told:
\* Rejected once the submit response carries the banner, Confirmed once the
\* confirm request came back successfully, Submitted in between
OrderState(c) ==
  IF SubmitOf(c).response.warning THEN "Rejected"
  ELSE IF /\ Len(RequestsOf(c)) = 2
          /\ ~RequestsOf(c)[2].response.raised
          /\ RequestsOf(c)[2].response.status_code = HTTP_OK
       THEN "Confirmed"
       ELSE "Submitted"

\* the submit request of caller c's order call came back, with a banner that
\* has a heading or with none
Submitted(c) ==
  /\ IsOrderCall(c)
  /\ RequestsOf(c) # <<>>
  /\ ~SubmitOf(c).response.raised
  /\ SubmitOf(c).response.warning => SubmitOf(c).response.h2 # NoH2

\* C15: an order call whose submit request came back ends in exactly one of
\* the states Confirmed and Rejected, never in Submitted; the caller is given
\* Status OK exactly when it is Confirmed and Status FAIL exactly when it is
\* Rejected.
C15_EndsInTerminalState ==
  \A c \in Callers :
    (Submitted(c) /\ Finished(c)) =>
      /\ OrderState(c) \in {"Confirmed", "Rejected"}
      /\ IsOK(result[c]) <=> OrderState(c) = "Confirmed"
      /\ IsFAIL(result[c]) <=> OrderState(c) = "Rejected"

\* C16: the client's session is the one made at construction, and every
\* request on the log was issued through it.
C16_OneSession ==
  /\ session = "session0"
  /\ \A k \in 1..Len(log) : log[k].session = session

C16_Witness ==
  \E c \in Callers :
    /\ Finished(c)
    /\ op[c] = "reset_portfolio"
    /\ Len(RequestsOf(c)) = 2
    /\ RequestsOf(c)[1].session = "session0"
    /\ RequestsOf(c)[2].session = "session0"
    /\ IsFAIL(result[c])
    /\ session = "session0"

\* C17: a finished reset_portfolio whose GET came back, whatever it returned,
\* issued exactly two requests, the GET and then the confirm POST to the GET
\* response's resolved url, and returned Status OK when the confirm request
\* came back with 200 and Status FAIL otherwise.
C17_ResetTwoRequests ==
  \A c \in Callers :
    (Finished(c) /\ op[c] = "reset_portfolio"
       /\ ~RequestsOf(c)[1].response.raised) =>
      /\ Len(RequestsOf(c)) = 2
      /\ RequestsOf(c)[1].method = "GET"
      /\ RequestsOf(c)[1].url = <<_host, "limpar">>
      /\ RequestsOf(c)[2].method = "POST"
      /\ RequestsOf(c)[2].data = ConfirmPayload
      /\ RequestsOf(c)[2].url = RequestsOf(c)[1].response.url
      /\ LET confirm == RequestsOf(c)[2].response
         IN  IF ~confirm.raised /\ confirm.status_code = HTTP_OK
             THEN IsOK(result[c]) ELSE IsFAIL(result[c])

\* the fields that act on orders: the action tokens and the order form
ActionFields ==
  {"execute", "confirm", "cancel", "orders[]", "company", "value", "quantity",
   "expiration_date", "pricing", "start_stop", "sell"}

\* C18: a read operation issues exactly one request per call, finished or
\* failed, and that request carries no action token and no order field.
C18_ReadsIssueOneBareRequest ==
  \A c \in Callers :
    op[c] \in ReadOps =>
      /\ Finished(c)
      /\ Len(RequestsOf(c)) = 1
      /\ RequestsOf(c)[1].step = op[c]
      /\ DOMAIN RequestsOf(c)[1].data \cap ActionFields = {}
      /\ \A k \in 1..Len(log) :
           log[k].step \in ReadOps => DOMAIN log[k].data \cap ActionFields = {}

C18_Witness ==
  \E c \in Callers :
    /\ op[c] = "orders_status"
    /\ Finished(c)
    /\ result[c] = Raised("TypeError")
    /\ Len(RequestsOf(c)) = 1
    /\ RequestsOf(c)[1].method = "POST"
    /\ RequestsOf(c)[1].data = NoData


=============================================================================
